---- MODULE Spec2Model ----
(***************************************************************************)
(* A model of src/trophicNetworkDrawer.js: class TrophicNetworkDrawer, the *)
(* three-layer (predators / preys / other predators) trophic network       *)
(* drawer.                                                                 *)
(*                                                                         *)
(* Numbers.  The program computes on JavaScript numbers.  The model uses   *)
(* exact fixed-point arithmetic:                                           *)
(*   - a fraction (a population or an occupation percentage) is an integer *)
(*     count of thousandths, so 1.0 is Unit and 0.996 is 996;              *)
(*   - an x coordinate or a width is an integer count of millionths of a   *)
(*     pixel, so one pixel is Pixel = Unit * Unit; every coordinate is a   *)
(*     multiple of Unit, and a fraction f times a coordinate c is the      *)
(*     exact (c \div Unit) * f;                                            *)
(*   - y coordinates, heights and the options are whole pixels, as in the  *)
(*     source.                                                             *)
(* The value sets below keep away from the half-way points of Math.round   *)
(* (sums such as 0.995 or 1.005), where binary floating point and exact    *)
(* arithmetic may round differently.                                       *)
(*                                                                         *)
(* Exceptions.  A read of a property of undefined raises a TypeError and   *)
(* ends the running method; each operation returns, next to its results,   *)
(* whether it threw.                                                       *)
(***************************************************************************)
EXTENDS Integers, Sequences, FiniteSets

VARIABLES
  predatorsPop,                      \* this.predatorsPop
  preysPop,                          \* this.preysPop
  otherPredatorsPop,                 \* this.otherPredatorsPop
  occupationPreysPerPredators,       \* this.occupationPreysPerPredators
  occupationPreysPerOtherPredators,  \* this.occupationPreysPerOtherPredators
  predatorsTriangleOrigin,           \* this.predatorsTriangleOrigin
  otherPredatorsTriangleOrigin,      \* this.otherPredatorsTriangleOrigin
  preysCoords,                       \* this.preysCoords
  options,                           \* this.options
  ctx,                               \* what has been drawn on the canvas
  alerts,                            \* the alert() messages of the latest call
  args,                              \* the arguments of the latest call
  ret,                               \* how the latest call ended
  trace,                             \* the methods the latest call invoked
  pc                                 \* which method was called last

vars == <<predatorsPop, preysPop, otherPredatorsPop, occupationPreysPerPredators,
          occupationPreysPerOtherPredators, predatorsTriangleOrigin,
          otherPredatorsTriangleOrigin, preysCoords, options, ctx, alerts,
          args, ret, trace, pc>>

drawerFields == <<predatorsPop, preysPop, otherPredatorsPop,
                  occupationPreysPerPredators, occupationPreysPerOtherPredators,
                  predatorsTriangleOrigin, otherPredatorsTriangleOrigin,
                  preysCoords, options>>

-----------------------------------------------------------------------------
(* Bounds and value sets *)

\* The most species in a level of predators, and entries in a matrix row.
MaxSpecies == 3

\* The most preys, and rows in a matrix.
MaxPreys == 2

\* The most numbers in the two occupation matrices of one call together.
MaxCells == 3

\* The fraction 1.0, in thousandths.
Unit == 10 * 10 * 10

\* One pixel, in coordinate units.
Pixel == Unit * Unit

\* All arrays of at most n values of vals.
Arrays(vals, n) == UNION {[1..k -> vals] : k \in 0..n}

Min(a, b) == IF a < b THEN a ELSE b

\* The sum of the lengths of the rows of a matrix.
RECURSIVE Cells(_)
Cells(m) == IF m = <<>> THEN 0 ELSE Len(Head(m)) + Cells(Tail(m))

\* All matrices of at most `rows` rows, each an array of at most MaxSpecies
\* values of vals, holding at most `cells` numbers.
RECURSIVE MatricesWithin(_, _, _)
MatricesWithin(vals, rows, cells) ==
  IF rows = 0 THEN {<<>>}
  ELSE {<<>>} \cup
       UNION {{<<r>> \o m : m \in MatricesWithin(vals, rows - 1, cells - Len(r))} :
              r \in Arrays(vals, Min(MaxSpecies, cells))}

-----------------------------------------------------------------------------
(* arraySum, lines 348-355 *)

RECURSIVE RawSum(_)
RawSum(array) == IF array = <<>> THEN 0 ELSE Head(array) + RawSum(Tail(array))

\* Math.round(x) on a non-negative x given in thousandths of a unit:
\* the nearest whole number, halves going up.
MathRound(thousandths) == (thousandths + 500) \div 1000

\* The sum without the rounding of line 354.
arraySumUnrounded(array) == RawSum(array)

\* Math.round(sum * 100) / 100, as a fraction in thousandths.
arraySum(array) == MathRound(RawSum(array) * 100) * 10

-----------------------------------------------------------------------------
(* validateMandatoryValues, lines 127-168 *)

Alert(text, index) == [text |-> text, preyIndexShown |-> index]

PredatorSumAlert == Alert("The sum of predator populations must be equal to 1.", 0)
PreySumAlert == Alert("The sum of preys populations must be equal to 1.", 0)
OtherPredatorSumAlert ==
  Alert("The sum of other predator populations must be equal to 1.", 0)
PredatorRowsAlert ==
  Alert("The predator occupations of preys must be set for every preys.", 0)
OtherPredatorRowsAlert ==
  Alert("The other predator occupations of preys must be set for every preys.", 0)
PredatorColumnsAlert ==
  Alert("The predator occupations of preys must be set for every predators.", 0)
OtherPredatorColumnsAlert ==
  Alert("The other predator occupations of preys must be set for every other predators.", 0)
OccupationSumAlert(preyIndexShown) ==
  Alert("The sum of occupations of a prey by predators plus other predators must be equal to 1 (prey index).",
        preyIndexShown)

If(cond, alert) == IF cond THEN <<alert>> ELSE <<>>

\* Lines 131-150: five checks that read only lengths and sums.
PopulationChecks(a) ==
  If(arraySum(a.predatorsPop) # Unit, PredatorSumAlert)
  \o If(arraySum(a.preysPop) # Unit, PreySumAlert)
  \o If(Len(a.otherPredatorsPop) > 0 /\ arraySum(a.otherPredatorsPop) # Unit,
        OtherPredatorSumAlert)

RowCountChecks(a) ==
  If(Len(a.occupationPreysPerPredators) # Len(a.preysPop), PredatorRowsAlert)
  \o If(Len(a.otherPredatorsPop) > 0
        /\ Len(a.occupationPreysPerOtherPredators) # Len(a.preysPop),
        OtherPredatorRowsAlert)

\* Line 151 reads occupationPreysPerPredators[0].length: a TypeError when the
\* matrix has no row.
PredatorColumnsThrows(a) == Len(a.occupationPreysPerPredators) = 0

PredatorColumnsCheck(a) ==
  If(Len(a.occupationPreysPerPredators[1]) # Len(a.predatorsPop),
     PredatorColumnsAlert)

\* Line 155 reads occupationPreysPerOtherPredators[0].length behind the guard
\* otherPredatorsPop.length > 0.
OtherPredatorColumnsThrows(a) ==
  Len(a.otherPredatorsPop) > 0 /\ Len(a.occupationPreysPerOtherPredators) = 0

OtherPredatorColumnsCheck(a) ==
  If(Len(a.otherPredatorsPop) > 0
     /\ Len(a.occupationPreysPerOtherPredators[1]) # Len(a.otherPredatorsPop),
     OtherPredatorColumnsAlert)

\* Line 160, for the 1-based row i: the rounded sum of the predators' row plus
\* the rounded sum of the other predators' row.
OccupationSumFails(a, i) ==
  arraySum(a.occupationPreysPerPredators[i])
    + arraySum(a.occupationPreysPerOtherPredators[i]) # Unit

\* Lines 159-165: forEach over the rows of occupationPreysPerPredators, from
\* row i on.  arraySum(undefined) raises a TypeError when the other
\* predators' matrix has no row i.
RECURSIVE OccupationSumChecks(_, _)
OccupationSumChecks(a, i) ==
  IF i > Len(a.occupationPreysPerPredators)
    THEN [alerts |-> <<>>, threw |-> FALSE]
  ELSE IF i > Len(a.occupationPreysPerOtherPredators)
    THEN [alerts |-> <<>>, threw |-> TRUE]
  ELSE LET rest == OccupationSumChecks(a, i + 1)
       IN [alerts |-> If(OccupationSumFails(a, i), OccupationSumAlert(i))
                        \o rest.alerts,
           threw |-> rest.threw]

\* The whole method: the alerts raised in order, whether a TypeError ended
\* it, and otherwise the value returned (paramsAreValid).
validateMandatoryValues(a) ==
  LET first == PopulationChecks(a) \o RowCountChecks(a)
  IN IF PredatorColumnsThrows(a)
       THEN [alerts |-> first, threw |-> TRUE, value |-> FALSE]
     ELSE LET second == first \o PredatorColumnsCheck(a)
          IN IF OtherPredatorColumnsThrows(a)
               THEN [alerts |-> second, threw |-> TRUE, value |-> FALSE]
             ELSE LET rows == OccupationSumChecks(a, 1)
                      all == second \o OtherPredatorColumnsCheck(a) \o rows.alerts
                  IN [alerts |-> all, threw |-> rows.threw,
                      value |-> (~rows.threw /\ all = <<>>)]

-----------------------------------------------------------------------------
(* The options, lines 24-38 and 110 *)

\* null, and a value that is not null: the labels options hold either.
Null == <<>>
NotNull(x) == <<x>>

\* A label is the sequence of its characters, so that label.length is Len.
Digits == <<"0", "1", "2", "3", "4", "5", "6", "7", "8", "9">>

RECURSIVE NumberToString(_)
NumberToString(n) ==
  IF n < 10 THEN <<Digits[n + 1]>>
  ELSE NumberToString(n \div 10) \o <<Digits[(n % 10) + 1]>>

\* The default options the constructor sets.
DefaultOptions ==
  [separatorWidth |-> 5,
   rectangleHeight |-> 30,
   predatorsPosY |-> 0,
   preysPosY |-> 150,
   otherPredatorsPosY |-> 300,
   canvasWidth |-> 500,
   predatorsColors |-> << <<"rgba(200,0,0,0.5)", "black">>,
                          <<"rgba(0,200,0,0.5)", "black">>,
                          <<"rgba(0,0,200,0.5)", "black">> >>,
   preysColors |-> << <<"black", "white">> >>,
   otherPredatorsColors |-> << <<"rgba(126,33,150,0.5)", "black">>,
                               <<"rgba(255,85,0,0.5)", "black">>,
                               <<"rgba(255,3,199,0.5)", "black">>,
                               <<"rgba(107,28,0,0.5)", "black">> >>,
   predatorsLabels |-> Null,
   preysLabels |-> Null,
   otherPredatorsLabels |-> Null,
   font |-> "15px Arial"]

\* An options argument that sets nothing.
NoOptions == <<>>

\* Object.assign(target, source): source's own properties overwrite target's.
ObjectAssign(target, source) ==
  [k \in DOMAIN target \cup DOMAIN source |->
     IF k \in DOMAIN source THEN source[k] ELSE target[k]]

-----------------------------------------------------------------------------
(* getColorFromArray, lines 317-320 *)

\* index % 0 is NaN, colors[NaN] is undefined, and reading [typeOfColorIndex]
\* of undefined raises a TypeError.
getColorFromArrayThrows(colors) == Len(colors) = 0

\* The colour at a 0-based index taken as it is: past the end of the list
\* there is no colour.
getColorFromArrayUncycled(colors, index, opt_forText) ==
  IF index + 1 > Len(colors) THEN "undefined"
  ELSE colors[index + 1][IF opt_forText THEN 2 ELSE 1]

\* The colour at a 0-based index, for a colour list that is not empty.
getColorFromArray(colors, index, opt_forText) ==
  colors[(index % Len(colors)) + 1][IF opt_forText THEN 2 ELSE 1]

-----------------------------------------------------------------------------
(* drawSpecyRectangles, lines 222-271 *)

\* Line 229.
LeftPos(previousCumulatedPopPercent, opts) ==
  previousCumulatedPopPercent * opts.canvasWidth * Unit
    + opts.separatorWidth * Pixel

\* The width without the separator taken off.
WidthUnseparated(specyPopPercent, opts) ==
  specyPopPercent * opts.canvasWidth * Unit

\* Line 230.
Width(specyPopPercent, opts) ==
  specyPopPercent * opts.canvasWidth * Unit - opts.separatorWidth * Pixel

\* Lines 239-247, for the 0-based specyIndex; labels[specyIndex] is undefined
\* past the end of a custom labels array, and label.length then raises.
LabelThrows(labels, specyIndex) ==
  labels # Null /\ specyIndex + 1 > Len(labels[1])

Label(labels, startIndex, specyIndex) ==
  IF labels # Null THEN labels[1][specyIndex + 1]
  ELSE NumberToString(startIndex + specyIndex)

\* Lines 258-267: what one species adds to specyCoords.
SpecyCoord(leftPos, width, specyPosY, opts, returnTriangleOriginCoords, opt_triangleOriginIsOnBottom) ==
  IF returnTriangleOriginCoords
    THEN <<leftPos + width \div 2,
           IF opt_triangleOriginIsOnBottom
             THEN specyPosY + opts.rectangleHeight ELSE specyPosY>>
    ELSE [topLeftPoint |-> <<leftPos, specyPosY>>,
          bottomLeftPoint |-> <<leftPos, specyPosY + opts.rectangleHeight>>,
          width |-> width]

\* The forEach of lines 227-268 from the 0-based specyIndex on, with the
\* cumulated population of the species before it.
RECURSIVE SpecyRectanglesFrom(_, _, _, _, _, _, _, _, _, _)
SpecyRectanglesFrom(specyPopArray, specyIndex, previousCumulatedPopPercent, specyPosY, specyColors, labels, startIndex, returnTriangleOriginCoords, opt_triangleOriginIsOnBottom, opts) ==
  LET none == [specyCoords |-> <<>>, fillRect |-> <<>>, fillText |-> <<>>,
               threw |-> FALSE]
  IN
  IF specyIndex + 1 > Len(specyPopArray) THEN none
  ELSE IF getColorFromArrayThrows(specyColors)
    THEN [none EXCEPT !.threw = TRUE]
  ELSE
    LET specyPopPercent == specyPopArray[specyIndex + 1]
        leftPos == LeftPos(previousCumulatedPopPercent, opts)
        width == Width(specyPopPercent, opts)
        rect == [x |-> leftPos, y |-> specyPosY, width |-> width,
                 height |-> opts.rectangleHeight,
                 fillStyle |-> getColorFromArray(specyColors, specyIndex, FALSE)]
    IN
    IF LabelThrows(labels, specyIndex)
      THEN [none EXCEPT !.fillRect = <<rect>>, !.threw = TRUE]
    ELSE
      LET label == Label(labels, startIndex, specyIndex)
          text == [label |-> label,
                   x |-> leftPos + width \div 2 - Len(label) * 4 * Pixel,
                   y |-> specyPosY + opts.rectangleHeight - 10,
                   fillStyle |-> getColorFromArray(specyColors, specyIndex, TRUE),
                   font |-> opts.font]
          coord == SpecyCoord(leftPos, width, specyPosY, opts,
                              returnTriangleOriginCoords,
                              opt_triangleOriginIsOnBottom)
          rest == SpecyRectanglesFrom(specyPopArray, specyIndex + 1,
                    previousCumulatedPopPercent + specyPopPercent,
                    specyPosY, specyColors, labels, startIndex,
                    returnTriangleOriginCoords, opt_triangleOriginIsOnBottom,
                    opts)
      IN [specyCoords |-> <<coord>> \o rest.specyCoords,
          fillRect |-> <<rect>> \o rest.fillRect,
          fillText |-> <<text>> \o rest.fillText,
          threw |-> rest.threw]

\* The whole method: the rectangles and labels drawn, the array returned
\* (when it did not throw).
drawSpecyRectangles(specyPopArray, specyPosY, specyColors, labels, startIndex, returnTriangleOriginCoords, opt_triangleOriginIsOnBottom, opts) ==
  SpecyRectanglesFrom(specyPopArray, 0, 0, specyPosY, specyColors, labels,
                      startIndex, returnTriangleOriginCoords,
                      opt_triangleOriginIsOnBottom, opts)

-----------------------------------------------------------------------------
(* drawPredatorsToPreysTriangles, lines 282-307, and drawTriangle, 330-340 *)

\* The inner forEach of lines 289-305 over one prey's row, from the 0-based
\* predatorIndex on.  It raises a TypeError when the prey has no coordinates
\* (line 293), when the colour list is empty (line 298), and in drawTriangle
\* when the predator has no triangle origin (line 335).
\* The offset left where it was: the next triangle starts where this one did.
leftTriangleOffsetXKept(offsetX, leftVertex, rightVertex) == offsetX

\* Line 304: the left X offset on the prey rectangle for the next triangle.
leftTriangleOffsetXNext(offsetX, leftVertex, rightVertex) ==
  offsetX + (rightVertex[1] - leftVertex[1])

RECURSIVE RowTrianglesFrom(_, _, _, _, _, _, _, _)
RowTrianglesFrom(occupationPredatorForCurrentPrey, predatorIndex, leftTriangleOffsetX, preyIndex, coords, predatorsTriangleOrigins, predatorsColors, opt_toPreyRectangleBottom) ==
  IF predatorIndex + 1 > Len(occupationPredatorForCurrentPrey)
    THEN [triangles |-> <<>>, threw |-> FALSE]
  ELSE IF \/ preyIndex + 1 > Len(coords)
          \/ getColorFromArrayThrows(predatorsColors)
          \/ predatorIndex + 1 > Len(predatorsTriangleOrigins)
    THEN [triangles |-> <<>>, threw |-> TRUE]
  ELSE
    LET currentPreyCoords == coords[preyIndex + 1]
        currentOccupationPercent ==
          occupationPredatorForCurrentPrey[predatorIndex + 1]
        leftPreyVertex == IF opt_toPreyRectangleBottom
                            THEN currentPreyCoords.bottomLeftPoint
                            ELSE currentPreyCoords.topLeftPoint
        leftTriangleVertex == <<leftPreyVertex[1] + leftTriangleOffsetX,
                                leftPreyVertex[2]>>
        rightTriangleVertex ==
          <<leftTriangleVertex[1]
              + (currentPreyCoords.width \div Unit) * currentOccupationPercent,
            leftTriangleVertex[2]>>
        triangle == [vertexA |-> leftTriangleVertex,
                     vertexB |-> rightTriangleVertex,
                     vertexC |-> predatorsTriangleOrigins[predatorIndex + 1],
                     fillStyle |-> getColorFromArray(predatorsColors,
                                                     predatorIndex, FALSE),
                     preyIndex |-> preyIndex,
                     predatorIndex |-> predatorIndex]
        rest == RowTrianglesFrom(occupationPredatorForCurrentPrey,
                  predatorIndex + 1,
                  leftTriangleOffsetXNext(leftTriangleOffsetX,
                    leftTriangleVertex, rightTriangleVertex),
                  preyIndex, coords, predatorsTriangleOrigins,
                  predatorsColors, opt_toPreyRectangleBottom)
    IN [triangles |-> <<triangle>> \o rest.triangles, threw |-> rest.threw]

\* The outer forEach of lines 284-306, from the 0-based preyIndex on.
RECURSIVE PreysTrianglesFrom(_, _, _, _, _, _)
PreysTrianglesFrom(occupationPreysPerPredatorsMatrix, preyIndex, coords, predatorsTriangleOrigins, predatorsColors, opt_toPreyRectangleBottom) ==
  IF preyIndex + 1 > Len(occupationPreysPerPredatorsMatrix)
    THEN [triangles |-> <<>>, threw |-> FALSE]
  ELSE
    LET row == RowTrianglesFrom(occupationPreysPerPredatorsMatrix[preyIndex + 1],
                 0, 0, preyIndex, coords, predatorsTriangleOrigins,
                 predatorsColors, opt_toPreyRectangleBottom)
    IN IF row.threw THEN row
       ELSE LET rest == PreysTrianglesFrom(occupationPreysPerPredatorsMatrix,
                          preyIndex + 1, coords, predatorsTriangleOrigins,
                          predatorsColors, opt_toPreyRectangleBottom)
            IN [triangles |-> row.triangles \o rest.triangles,
                threw |-> rest.threw]

\* The whole method: the triangles filled, in order, and whether it threw.
drawPredatorsToPreysTriangles(occupationPreysPerPredatorsMatrix, predatorsTriangleOrigins, predatorsColors, opt_toPreyRectangleBottom, coords) ==
  PreysTrianglesFrom(occupationPreysPerPredatorsMatrix, 0, coords,
                     predatorsTriangleOrigins, predatorsColors,
                     opt_toPreyRectangleBottom)


-----------------------------------------------------------------------------
(* draw, lines 175-207 *)

\* The canvas element of drawTrophic.html before anything is drawn on it.
BlankCanvas ==
  [width |-> 300, height |-> 150, fillRect |-> <<>>, fillText |-> <<>>,
   triangles |-> <<>>]

\* The drawer as one record: the object `this`.
This ==
  [predatorsPop |-> predatorsPop,
   preysPop |-> preysPop,
   otherPredatorsPop |-> otherPredatorsPop,
   occupationPreysPerPredators |-> occupationPreysPerPredators,
   occupationPreysPerOtherPredators |-> occupationPreysPerOtherPredators,
   predatorsTriangleOrigin |-> predatorsTriangleOrigin,
   otherPredatorsTriangleOrigin |-> otherPredatorsTriangleOrigin,
   preysCoords |-> preysCoords,
   options |-> options]

\* The start index set back to 1 for the next level.
startIndexRestarted(startIndex, specyPopArray) == 1

\* Lines 191 and 196: the start index of the labels of the next level.
startIndexNext(startIndex, specyPopArray) == startIndex + Len(specyPopArray)

\* draw on the drawer t: the drawer and the canvas it leaves, and whether a
\* TypeError ended it.  Setting the canvas width (line 178) clears the
\* canvas.  Each step runs only if the step before it returned.
draw(t) ==
  LET o == t.options
      lastRectangleRowY == IF Len(t.otherPredatorsPop) > 0
                             THEN o.otherPredatorsPosY ELSE o.preysPosY
      c0 == [width |-> o.canvasWidth,
             height |-> lastRectangleRowY + o.rectangleHeight,
             fillRect |-> <<>>, fillText |-> <<>>, triangles |-> <<>>]
      startIndex1 == 1
      r1 == drawSpecyRectangles(t.predatorsPop, o.predatorsPosY,
              o.predatorsColors, o.predatorsLabels, startIndex1, TRUE, TRUE, o)
      c1 == [c0 EXCEPT !.fillRect = r1.fillRect, !.fillText = r1.fillText]
      t1 == [t EXCEPT !.predatorsTriangleOrigin = r1.specyCoords]
      startIndex2 == startIndexNext(startIndex1, t.predatorsPop)
      r2 == drawSpecyRectangles(t.preysPop, o.preysPosY, o.preysColors,
              o.preysLabels, startIndex2, FALSE, FALSE, o)
      c2 == [c1 EXCEPT !.fillRect = @ \o r2.fillRect,
                       !.fillText = @ \o r2.fillText]
      t2 == [t1 EXCEPT !.preysCoords = r2.specyCoords]
      startIndex3 == startIndexNext(startIndex2, t.preysPop)
      r3 == drawSpecyRectangles(t.otherPredatorsPop, o.otherPredatorsPosY,
              o.otherPredatorsColors, o.otherPredatorsLabels, startIndex3,
              TRUE, FALSE, o)
      c3 == [c2 EXCEPT !.fillRect = @ \o r3.fillRect,
                       !.fillText = @ \o r3.fillText]
      t3 == [t2 EXCEPT !.otherPredatorsTriangleOrigin = r3.specyCoords]
      g1 == drawPredatorsToPreysTriangles(t3.occupationPreysPerPredators,
              t3.predatorsTriangleOrigin, o.predatorsColors, FALSE,
              t3.preysCoords)
      c4 == [c3 EXCEPT !.triangles = g1.triangles]
      g2 == drawPredatorsToPreysTriangles(t3.occupationPreysPerOtherPredators,
              t3.otherPredatorsTriangleOrigin, o.otherPredatorsColors, TRUE,
              t3.preysCoords)
      c5 == [c4 EXCEPT !.triangles = @ \o g2.triangles]
  IN
  IF r1.threw THEN [this |-> t, ctx |-> c1, threw |-> TRUE]
  ELSE IF r2.threw THEN [this |-> t1, ctx |-> c2, threw |-> TRUE]
  ELSE IF r3.threw THEN [this |-> t2, ctx |-> c3, threw |-> TRUE]
  ELSE IF g1.threw THEN [this |-> t3, ctx |-> c4, threw |-> TRUE]
  ELSE [this |-> t3, ctx |-> c5, threw |-> g2.threw]

-----------------------------------------------------------------------------
(* drawTrophicNetwork, lines 94-114 *)

\* How a call ended: by a return with a value ("true", "false", "undefined",
\* or "array" with the array returned), or by a TypeError.
Return(value) == [kind |-> "return", value |-> value, array |-> <<>>]
ReturnArray(array) == [kind |-> "return", value |-> "array", array |-> array]
Throw == [kind |-> "throw", value |-> "TypeError", array |-> <<>>]
NotCalled == [kind |-> "none", value |-> "undefined", array |-> <<>>]

\* drawTrophicNetwork without the return of line 100: the arguments are used
\* and drawn whatever the validator found.
drawTrophicNetworkUngated(t, c, a) ==
  LET v == validateMandatoryValues(a)
      used == [t EXCEPT
                 !.predatorsPop = a.predatorsPop,
                 !.preysPop = a.preysPop,
                 !.otherPredatorsPop = a.otherPredatorsPop,
                 !.occupationPreysPerPredators = a.occupationPreysPerPredators,
                 !.occupationPreysPerOtherPredators =
                    a.occupationPreysPerOtherPredators,
                 !.options = ObjectAssign(t.options, a.options)]
      d == draw(used)
  IN IF v.threw
       THEN [this |-> t, ctx |-> c, alerts |-> v.alerts, ret |-> Throw,
             trace |-> <<"validateMandatoryValues">>]
     ELSE [this |-> d.this, ctx |-> d.ctx, alerts |-> v.alerts,
           ret |-> IF d.threw THEN Throw ELSE Return("undefined"),
           trace |-> <<"validateMandatoryValues", "draw">>]

\* drawTrophicNetwork on the drawer t with the arguments a: the drawer and
\* the canvas it leaves, the alerts raised, how it ended, and the methods it
\* invoked.
drawTrophicNetwork(t, c, a) ==
  LET v == validateMandatoryValues(a)
      same == [this |-> t, ctx |-> c, alerts |-> v.alerts,
               ret |-> Return("undefined"),
               trace |-> <<"validateMandatoryValues">>]
  IN
  IF v.threw THEN [same EXCEPT !.ret = Throw]
  ELSE IF ~v.value THEN same
  ELSE
    LET used == [t EXCEPT
                   !.predatorsPop = a.predatorsPop,
                   !.preysPop = a.preysPop,
                   !.otherPredatorsPop = a.otherPredatorsPop,
                   !.occupationPreysPerPredators = a.occupationPreysPerPredators,
                   !.occupationPreysPerOtherPredators =
                      a.occupationPreysPerOtherPredators,
                   !.options = ObjectAssign(t.options, a.options)]
        d == draw(used)
    IN [this |-> d.this, ctx |-> d.ctx, alerts |-> v.alerts,
        ret |-> IF d.threw THEN Throw ELSE Return("undefined"),
        trace |-> <<"validateMandatoryValues", "draw">>]


-----------------------------------------------------------------------------
(* The arguments the calls are made with *)

Arguments(pred, prey, other, occ, occOther, opts) ==
  [predatorsPop |-> pred, preysPop |-> prey, otherPredatorsPop |-> other,
   occupationPreysPerPredators |-> occ,
   occupationPreysPerOtherPredators |-> occOther,
   options |-> opts]

NoArguments == Arguments(<<>>, <<>>, <<>>, <<>>, <<>>, NoOptions)

\* n species sharing the population evenly; the last takes the remainder.
UniformPop(n) ==
  [i \in 1..n |-> IF i < n THEN Unit \div n ELSE Unit - (n - 1) * (Unit \div n)]

\* n entries of 0.
Zeros(n) == [i \in 1..n |-> 0]

\* Populations of the validator's population checks: exact sums, sums inside
\* the rounding tolerance (0.998, 1.004) and sums just outside it (0.994,
\* 1.006), besides sums far from 1.
PopulationVals == {4, 6, 994, Unit}

\* Occupation percentages: a row can sum to 1 on its own ([1.0] or
\* [0.4, 0.6]), only together with the other matrix's row ([0.6] and [0.4]),
\* or within the rounding tolerance ([0.996]).
OccupationVals == {0, 400, 600, 996, Unit}

\* Populations of the partition: exact sums of 1 with ordinary species
\* (0.4 + 0.6), with a species narrower than the separator (0.996 + 0.004)
\* and with an absent one (1.0 + 0.0).
PartitionVals == {0, 4, 400, 600, 996, Unit}

\* Options arguments: none, one that overrides the geometry and gives the
\* predators fewer colours than a level has species, and one that labels
\* two predators.
OptionsArguments ==
  {NoOptions,
   [canvasWidth |-> 400, separatorWidth |-> 2,
    predatorsColors |-> << <<"red", "white">>, <<"blue", "yellow">> >>],
   [predatorsLabels |-> NotNull(<< <<"p", "1">>, <<"p", "2">> >>)]}

-----------------------------------------------------------------------------
(* States and actions *)

\* A drawer whose options are opts and that has drawn nothing, and a canvas
\* nothing was drawn on.
Fresh(opts) ==
  /\ predatorsPop = <<>>
  /\ preysPop = <<>>
  /\ otherPredatorsPop = <<>>
  /\ occupationPreysPerPredators = <<>>
  /\ occupationPreysPerOtherPredators = <<>>
  /\ predatorsTriangleOrigin = <<>>
  /\ otherPredatorsTriangleOrigin = <<>>
  /\ preysCoords = <<>>
  /\ options = opts
  /\ ctx = BlankCanvas
  /\ alerts = <<>>
  /\ ret = NotCalled
  /\ trace = <<>>

\* The constructor, lines 11-39.
Constructed == Fresh(DefaultOptions)

\* A call of validateMandatoryValues with the arguments args.
ValidateMandatoryValuesCall ==
  /\ pc = "ready"
  /\ \E v \in {validateMandatoryValues(args)} :
        /\ alerts' = v.alerts
        /\ ret' = IF v.threw THEN Throw
                  ELSE IF v.value THEN Return("true") ELSE Return("false")
  /\ trace' = <<"validateMandatoryValues">>
  /\ pc' = "validateMandatoryValues"
  /\ UNCHANGED <<drawerFields, ctx, args>>

\* The state drawTrophicNetwork leaves when called with the arguments a.
DrawTrophicNetworkWith(a) ==
  \E r \in {drawTrophicNetwork(This, ctx, a)} :
     /\ predatorsPop' = r.this.predatorsPop
     /\ preysPop' = r.this.preysPop
     /\ otherPredatorsPop' = r.this.otherPredatorsPop
     /\ occupationPreysPerPredators' = r.this.occupationPreysPerPredators
     /\ occupationPreysPerOtherPredators' =
          r.this.occupationPreysPerOtherPredators
     /\ predatorsTriangleOrigin' = r.this.predatorsTriangleOrigin
     /\ otherPredatorsTriangleOrigin' = r.this.otherPredatorsTriangleOrigin
     /\ preysCoords' = r.this.preysCoords
     /\ options' = r.this.options
     /\ ctx' = r.ctx
     /\ alerts' = r.alerts
     /\ ret' = r.ret
     /\ trace' = r.trace
     /\ args' = a
     /\ pc' = "drawTrophicNetwork"

\* A call of drawTrophicNetwork with the arguments args, on a new drawer.
DrawTrophicNetworkCall ==
  /\ pc = "ready"
  /\ DrawTrophicNetworkWith(args)

\* A call of drawSpecyRectangles with the arguments args, on a drawer whose
\* options are set and whose canvas is clear.
DrawSpecyRectanglesCall ==
  /\ pc = "partition"
  /\ \E r \in {drawSpecyRectangles(args.specyPopArray, args.specyPosY,
                args.specyColors, args.labels, args.startIndex,
                args.returnTriangleOriginCoords,
                args.opt_triangleOriginIsOnBottom, options)} :
        /\ ctx' = [ctx EXCEPT !.fillRect = r.fillRect, !.fillText = r.fillText]
        /\ ret' = IF r.threw THEN Throw ELSE ReturnArray(r.specyCoords)
  /\ trace' = <<"drawSpecyRectangles">>
  /\ pc' = "drawSpecyRectangles"
  /\ UNCHANGED <<drawerFields, alerts, args>>

-----------------------------------------------------------------------------
(* One call of the validator, with even populations of every size and every *)
(* pair of occupation matrices of at most MaxCells numbers.                  *)

\* args is such an argument list, with the options argument opts.
NetworkArguments(opts) ==
  \E np \in 0..MaxSpecies, ny \in 0..MaxPreys, no \in 0..MaxSpecies :
    \E occ \in MatricesWithin(OccupationVals, MaxPreys, MaxCells) :
      \E occOther \in MatricesWithin(OccupationVals, MaxPreys,
                                     MaxCells - Cells(occ)) :
        args = Arguments(UniformPop(np), UniformPop(ny), UniformPop(no),
                         occ, occOther, opts)

InitValidate ==
  /\ Constructed
  /\ pc = "ready"
  /\ NetworkArguments(NoOptions)

NextValidate == ValidateMandatoryValuesCall

SpecValidate == InitValidate /\ [][NextValidate]_vars

-----------------------------------------------------------------------------
(* One call of the validator, with every population array over              *)
(* PopulationVals and the occupation matrices that fit the populations'     *)
(* sizes: a predators' row sums to 1, an other predators' row to 0.         *)

FittingMatrix(rows, row) == [i \in 1..rows |-> row]

InitPopulations ==
  /\ Constructed
  /\ pc = "ready"
  /\ \E pred \in Arrays(PopulationVals, MaxSpecies),
        prey \in Arrays(PopulationVals, MaxPreys),
        other \in Arrays(PopulationVals, MaxSpecies) :
       args = Arguments(pred, prey, other,
                        FittingMatrix(Len(prey), UniformPop(Len(pred))),
                        FittingMatrix(Len(prey), Zeros(Len(other))),
                        NoOptions)

SpecPopulations == InitPopulations /\ [][NextValidate]_vars

-----------------------------------------------------------------------------
(* One call of drawTrophicNetwork on a new drawer, with every argument list *)
(* of NetworkArguments that the validator accepts, and each options         *)
(* argument.                                                                 *)

InitDraw ==
  /\ Constructed
  /\ pc = "ready"
  /\ \E opts \in OptionsArguments :
       /\ NetworkArguments(opts)
       /\ validateMandatoryValues(args).value

NextDraw == DrawTrophicNetworkCall

SpecDraw == InitDraw /\ [][NextDraw]_vars

-----------------------------------------------------------------------------
(* One call of drawSpecyRectangles, with every population array over        *)
(* PartitionVals, as draw calls it for the predators (triangle origins on   *)
(* the bottom) and for the preys (rectangle coordinates).                    *)

PartitionArguments(pop, colors, forPredators) ==
  [specyPopArray |-> pop,
   specyPosY |-> IF forPredators THEN DefaultOptions.predatorsPosY
                 ELSE DefaultOptions.preysPosY,
   specyColors |-> colors,
   labels |-> Null,
   startIndex |-> 1,
   returnTriangleOriginCoords |-> forPredators,
   opt_triangleOriginIsOnBottom |-> forPredators]

\* The colour lists a level is drawn with: the one of its options, and an
\* empty one.
PartitionColors(opts, forPredators) ==
  {IF forPredators THEN ObjectAssign(DefaultOptions, opts).predatorsColors
   ELSE ObjectAssign(DefaultOptions, opts).preysColors,
   <<>>}

InitPartition ==
  /\ pc = "partition"
  /\ \E pop \in Arrays(PartitionVals, MaxSpecies),
        opts \in OptionsArguments, forPredators \in BOOLEAN :
       /\ Fresh(ObjectAssign(DefaultOptions, opts))
       /\ \E colors \in PartitionColors(opts, forPredators) :
            args = PartitionArguments(pop, colors, forPredators)

NextPartition == DrawSpecyRectanglesCall

SpecPartition == InitPartition /\ [][NextPartition]_vars


-----------------------------------------------------------------------------
(* A drawer used for any number of calls of drawTrophicNetwork, as a page   *)
(* script does: networks of two and of three levels, right and wrong, with  *)
(* and without an options argument.                                          *)

ScenarioPredatorsPop == {<<Unit>>, <<400, 600>>, <<500, 400>>}
ScenarioPreysPop == {<<Unit>>, <<>>}
ScenarioOtherPredatorsPop == {<<>>, <<Unit>>}
ScenarioOccupations == {<<<<Unit>>>>, <<<<400, 600>>>>, <<<<600>>>>}
ScenarioOtherOccupations == {<<>>, <<<<>>>>, <<<<400>>>>}

Init ==
  /\ Constructed
  /\ pc = "constructed"
  /\ args = NoArguments

DrawTrophicNetwork ==
  \E pred \in ScenarioPredatorsPop, prey \in ScenarioPreysPop,
     other \in ScenarioOtherPredatorsPop, occ \in ScenarioOccupations,
     occOther \in ScenarioOtherOccupations, opts \in OptionsArguments :
    DrawTrophicNetworkWith(Arguments(pred, prey, other, occ, occOther, opts))

Next == DrawTrophicNetwork

Spec == Init /\ [][Next]_vars

-----------------------------------------------------------------------------
(* C1 *)

\* C1: whenever validateMandatoryValues finds at least one defect,
\* drawTrophicNetwork ends without invoking draw: the canvas is left as it
\* was (no rectangle, no label, no triangle is drawn) and the drawer's stored
\* populations, occupation matrices, computed coordinates and options are
\* exactly those of before the call.
C1_ValidationGatesThePipeline ==
  [][(pc' = "drawTrophicNetwork" /\ alerts' # <<>>) =>
       /\ trace' = <<"validateMandatoryValues">>
       /\ ctx' = ctx
       /\ UNCHANGED drawerFields]_vars

\* A call with a defect on a drawer that holds an earlier, valid network and
\* its drawing.
C1_Witness ==
  /\ pc = "drawTrophicNetwork"
  /\ alerts # <<>>
  /\ ret = Return("undefined")
  /\ preysPop # <<>>
  /\ args.preysPop # preysPop
  /\ ctx.fillRect # <<>>
  /\ ctx.triangles # <<>>


-----------------------------------------------------------------------------
(* What a call of the validator was given and has reported *)

Range(seq) == {seq[i] : i \in 1..Len(seq)}

\* The sum of an array, entry by entry.
Total(array) == LET sumTo[i \in 0..Len(array)] ==
                      IF i = 0 THEN 0 ELSE sumTo[i - 1] + array[i]
                IN sumTo[Len(array)]

\* The nearest hundredth to a fraction is 1.00: the fraction lies in
\* [0.995, 1.005).
RoundsToOne(fraction) ==
  /\ 2 * fraction >= 2 * Unit - Unit \div 100
  /\ 2 * fraction < 2 * Unit + Unit \div 100

Validated == pc = "validateMandatoryValues"
Accepted == Validated /\ ret = Return("true")
Reported(alert) == alert \in Range(alerts)

\* The third level is supplied.
OtherPredatorsSupplied == Len(args.otherPredatorsPop) > 0

\* The rows of a matrix whose own sum does not round to 1, and those whose
\* length is not n.
RowsNotSummingToOne(matrix) ==
  {i \in 1..Len(matrix) : ~RoundsToOne(Total(matrix[i]))}
RowsNotOfLength(matrix, n) == {i \in 1..Len(matrix) : Len(matrix[i]) # n}

Count(condition) == IF condition THEN 1 ELSE 0

\* The checks an argument list violates: a population sum per level, a row
\* count and, per row, a column count and a row sum per occupation matrix.
ViolatedChecks ==
  Count(~RoundsToOne(Total(args.predatorsPop)))
  + Count(~RoundsToOne(Total(args.preysPop)))
  + Count(Len(args.occupationPreysPerPredators) # Len(args.preysPop))
  + Cardinality(RowsNotOfLength(args.occupationPreysPerPredators,
                                Len(args.predatorsPop)))
  + Cardinality(RowsNotSummingToOne(args.occupationPreysPerPredators))
  + IF OtherPredatorsSupplied
      THEN Count(~RoundsToOne(Total(args.otherPredatorsPop)))
           + Count(Len(args.occupationPreysPerOtherPredators)
                     # Len(args.preysPop))
           + Cardinality(RowsNotOfLength(args.occupationPreysPerOtherPredators,
                                         Len(args.otherPredatorsPop)))
           + Cardinality(RowsNotSummingToOne(
                           args.occupationPreysPerOtherPredators))
      ELSE 0

\* The levels with a defect of their own: a population sum, or for the preys
\* and the other predators a defect of the matrix between them.
DefectiveLevels ==
  Count(~RoundsToOne(Total(args.predatorsPop)))
  + Count(~RoundsToOne(Total(args.preysPop)))
  + Count(OtherPredatorsSupplied
          /\ ~RoundsToOne(Total(args.otherPredatorsPop)))

\* The levels that hold a species.
PopulatedLevels ==
  Count(Len(args.predatorsPop) > 0) + Count(Len(args.preysPop) > 0)
  + Count(Len(args.otherPredatorsPop) > 0)

-----------------------------------------------------------------------------
(* C2 *)

\* C2: the validator does not stop at the first defect: on every network of
\* at least two populated levels it returns, with one report per violated
\* check (a population sum, a matrix row count, a matrix column count, a row
\* sum), and with at least two reports and the answer invalid when two
\* different levels have a defect.
C2_EveryViolatedCheckIsReported ==
  (Validated /\ PopulatedLevels >= 2) =>
    /\ ret.kind = "return"
    /\ Len(alerts) = ViolatedChecks
    /\ DefectiveLevels >= 2 => (Len(alerts) >= 2 /\ ret = Return("false"))

-----------------------------------------------------------------------------
(* C3 *)

\* C3: for every level supplied the validator reports the population-sum
\* defect of that level if and only if the sum of the level's populations,
\* rounded to two decimals, differs from 1: a sum from 0.995 up to, not
\* including, 1.005 is accepted, any other is reported.
C3_PopulationSumReportedIffNotOne ==
  Validated =>
    /\ Reported(PredatorSumAlert) <=> ~RoundsToOne(Total(args.predatorsPop))
    /\ Reported(PreySumAlert) <=> ~RoundsToOne(Total(args.preysPop))
    /\ Reported(OtherPredatorSumAlert) <=>
         (OtherPredatorsSupplied /\ ~RoundsToOne(Total(args.otherPredatorsPop)))

\* Predators summing to 0.998 and other predators to 1.004 pass the check;
\* preys summing to 0.994 are reported.
C3_Witness ==
  /\ Validated
  /\ Total(args.predatorsPop) = Unit - 2 /\ ~Reported(PredatorSumAlert)
  /\ Total(args.otherPredatorsPop) = Unit + 4 /\ ~Reported(OtherPredatorSumAlert)
  /\ Total(args.preysPop) = Unit - 6 /\ Reported(PreySumAlert)

-----------------------------------------------------------------------------
(* C4 *)

\* C4: in every input the validator accepts, every row of each occupation
\* matrix, taken on its own, sums to 1 after rounding to two decimals: a
\* matrix with a row whose own sum is not 1 is not accepted.
C4_EveryRowSumsToOneOnItsOwn ==
  Accepted =>
    /\ RowsNotSummingToOne(args.occupationPreysPerPredators) = {}
    /\ OtherPredatorsSupplied =>
         RowsNotSummingToOne(args.occupationPreysPerOtherPredators) = {}

-----------------------------------------------------------------------------
(* C5 *)

\* The other predators' matrix of a network without other predators holds
\* no number.
NoStrayOccupations ==
  OtherPredatorsSupplied \/ Cells(args.occupationPreysPerOtherPredators) = 0

\* C5: when the validator returns, it has rejected every matrix whose row
\* count differs from the number of preys, and every matrix in which any
\* row, the first or a later one, has a column count different from the
\* number of species of its predator level.
C5_ShapeCheckCoversEveryRow ==
  (Validated /\ ret.kind = "return" /\ NoStrayOccupations) =>
    /\ Len(args.occupationPreysPerPredators) # Len(args.preysPop)
         => ret = Return("false")
    /\ RowsNotOfLength(args.occupationPreysPerPredators,
                       Len(args.predatorsPop)) # {}
         => ret = Return("false")
    /\ OtherPredatorsSupplied =>
         /\ Len(args.occupationPreysPerOtherPredators) # Len(args.preysPop)
              => ret = Return("false")
         /\ RowsNotOfLength(args.occupationPreysPerOtherPredators,
                            Len(args.otherPredatorsPop)) # {}
              => ret = Return("false")

-----------------------------------------------------------------------------
(* C6 *)

\* Of the three levels only the predators hold a species, and no occupation
\* is given.
OnlyPredators ==
  /\ Len(args.predatorsPop) > 0
  /\ Len(args.preysPop) = 0
  /\ Len(args.otherPredatorsPop) = 0
  /\ args.occupationPreysPerPredators = <<>>
  /\ args.occupationPreysPerOtherPredators = <<>>

\* C6: a network of fewer than two levels (an empty prey population array
\* and an empty occupation matrix, leaving only one populated level) is
\* rejected with exactly one report, and the validator returns: it raises no
\* exception.
C6_FewerThanTwoLevelsIsOneReport ==
  (Validated /\ OnlyPredators) =>
    /\ ret = Return("false")
    /\ Len(alerts) = 1

-----------------------------------------------------------------------------
(* What a call of drawTrophicNetwork has drawn *)

\* draw was invoked, and it returned.
Drew == pc = "drawTrophicNetwork" /\ trace = <<"validateMandatoryValues", "draw">>
DrewAll == Drew /\ ret = Return("undefined")

\* The Y of the edge of the preys' rectangles that the triangles of a matrix
\* end on: the top for the predators' matrix, the bottom for the other
\* predators'.
PreyEdgeY(bottom) ==
  options.preysPosY + IF bottom THEN options.rectangleHeight ELSE 0

Matrix(bottom) ==
  IF bottom THEN occupationPreysPerOtherPredators
  ELSE occupationPreysPerPredators

\* The matrices of the levels that exist.
SuppliedMatrices == IF Len(otherPredatorsPop) > 0 THEN BOOLEAN ELSE {FALSE}

\* The 0-based indexes of the rows of a matrix that belong to a prey.
PreyRows(bottom) ==
  {i \in 0..(Len(Matrix(bottom)) - 1) : i + 1 <= Len(preysCoords)}

\* The triangles drawn for the 0-based row i of a matrix, in drawing order.
RowFlows(bottom, i) ==
  LET OfRow(t) == t.preyIndex = i /\ t.vertexA[2] = PreyEdgeY(bottom)
  IN SelectSeq(ctx.triangles, OfRow)

PreyLeft(i) == preysCoords[i + 1].topLeftPoint[1]
PreyWidth(i) == preysCoords[i + 1].width

\* How far from the prey's left edge the last triangle of a row ends.
FinalOffset(bottom, i) ==
  LET flows == RowFlows(bottom, i)
  IN IF flows = <<>> THEN 0 ELSE flows[Len(flows)].vertexB[1] - PreyLeft(i)

\* The prey-side segments of a row start at the prey's left edge and each
\* starts where the one before it ends.
Contiguous(bottom, i) ==
  LET flows == RowFlows(bottom, i)
  IN /\ flows # <<>> => flows[1].vertexA[1] = PreyLeft(i)
     /\ \A k \in 1..(Len(flows) - 1) :
          flows[k + 1].vertexA[1] = flows[k].vertexB[1]

-----------------------------------------------------------------------------
(* C7 *)

\* The statement as the specification words it: after a drawing of a
\* validated input, for every occupation matrix and every prey row, the
\* prey-side segments start at the prey rectangle's left edge, are
\* contiguous, and the offset after the last column equals the prey
\* rectangle's width.
C7_RowTilesThePreyExactly ==
  DrewAll =>
    \A bottom \in SuppliedMatrices : \A i \in PreyRows(bottom) :
      /\ Contiguous(bottom, i)
      /\ FinalOffset(bottom, i) = PreyWidth(i)

\* C7: after a drawing of a validated input, for every occupation matrix and
\* every prey row, the prey-side segments start at the prey rectangle's left
\* edge and are contiguous, the segment of column j is as wide as the prey
\* rectangle's width times the row's entry for j, and the offset after the
\* last column is the prey rectangle's width times the sum of the row's own
\* entries: the prey rectangle's width only when these sum to exactly 1.
C7_RowTilesItsShareOfThePrey ==
  Drew =>
    \A bottom \in BOOLEAN : \A i \in PreyRows(bottom) :
      LET flows == RowFlows(bottom, i)
          row == Matrix(bottom)[i + 1]
      IN /\ Contiguous(bottom, i)
         /\ Len(flows) <= Len(row)
         /\ \A k \in 1..Len(flows) :
              flows[k].vertexB[1] - flows[k].vertexA[1]
                = (PreyWidth(i) \div Unit) * row[k]
         /\ DrewAll =>
              /\ Len(flows) = Len(row)
              /\ FinalOffset(bottom, i) = (PreyWidth(i) \div Unit) * Total(row)
              /\ PreyWidth(i) # 0 =>
                   (FinalOffset(bottom, i) = PreyWidth(i) <=> Total(row) = Unit)

\* A drawing in which the segments of a prey's row of the predators' matrix
\* end short of the prey rectangle's right edge.
C7_Witness ==
  /\ DrewAll
  /\ \E i \in PreyRows(FALSE) :
       /\ RowFlows(FALSE, i) # <<>>
       /\ FinalOffset(FALSE, i) > 0
       /\ FinalOffset(FALSE, i) < PreyWidth(i)

-----------------------------------------------------------------------------
(* C10 *)

\* The rectangles and labels of the three levels are drawn one level after
\* the other: the level's colour list and the species' 0-based index of the
\* k-th rectangle drawn.
RectColors(k) ==
  IF k <= Len(predatorsPop) THEN options.predatorsColors
  ELSE IF k <= Len(predatorsPop) + Len(preysPop) THEN options.preysColors
  ELSE options.otherPredatorsColors

RectIndex(k) ==
  IF k <= Len(predatorsPop) THEN k - 1
  ELSE IF k <= Len(predatorsPop) + Len(preysPop)
    THEN k - 1 - Len(predatorsPop)
  ELSE k - 1 - Len(predatorsPop) - Len(preysPop)

\* Entry (i mod n) of a colour list of length n.
Entry(colors, i) == colors[(i % Len(colors)) + 1]

FlowColors(t) ==
  IF t.vertexA[2] = PreyEdgeY(TRUE) THEN options.otherPredatorsColors
  ELSE options.predatorsColors

\* C10: colour resolution cycles: the rectangle and the label of the species
\* of index i of a level carry the fill and the text colour of entry
\* (i mod n) of the level's list of n colours, so that species i and i + n of
\* a level carry the same colours, and the triangle of predator column j
\* carries the fill colour of entry (j mod n) of its predator level's list.
C10_ColoursCycle ==
  Drew =>
    /\ Len(ctx.fillText) <= Len(ctx.fillRect)
    /\ \A k \in 1..Len(ctx.fillRect) :
         ctx.fillRect[k].fillStyle = Entry(RectColors(k), RectIndex(k))[1]
    /\ \A k \in 1..Len(ctx.fillText) :
         ctx.fillText[k].fillStyle = Entry(RectColors(k), RectIndex(k))[2]
    /\ \A k, l \in 1..Len(ctx.fillText) :
         (RectColors(k) = RectColors(l)
            /\ RectIndex(l) = RectIndex(k) + Len(RectColors(k)))
         => /\ ctx.fillRect[l].fillStyle = ctx.fillRect[k].fillStyle
            /\ ctx.fillText[l].fillStyle = ctx.fillText[k].fillStyle
    /\ \A t \in Range(ctx.triangles) :
         t.fillStyle = Entry(FlowColors(t), t.predatorIndex)[1]

\* A drawing with more predators than the predators have colours, and more
\* than one colour: a rectangle and a triangle of a predator past the end of
\* the list.
C10_Witness ==
  /\ DrewAll
  /\ Len(options.predatorsColors) > 1
  /\ Len(predatorsPop) > Len(options.predatorsColors)
  /\ Len(ctx.fillRect) = Len(predatorsPop) + Len(preysPop)
                           + Len(otherPredatorsPop)
  /\ \E t \in Range(ctx.triangles) :
       /\ t.predatorIndex + 1 > Len(options.predatorsColors)
       /\ t.vertexA[2] = PreyEdgeY(FALSE)
       /\ t.vertexB[1] > t.vertexA[1]

-----------------------------------------------------------------------------
(* What a call of drawSpecyRectangles has drawn *)

\* The call returned, for a level with a species.
Partitioned ==
  /\ pc = "drawSpecyRectangles"
  /\ ret.kind = "return"
  /\ args.specyPopArray # <<>>

\* The population array sums to exactly 1.
SumsToOne == Total(args.specyPopArray) = Unit

\* The canvas width and the separator width, in coordinate units.
CanvasRight == options.canvasWidth * Pixel
Separator == options.separatorWidth * Pixel

\* The edges of the k-th rectangle drawn, as fillRect was given them, and
\* the lowest and the highest X it covers.
Left(k) == ctx.fillRect[k].x
Right(k) == ctx.fillRect[k].x + ctx.fillRect[k].width
Lowest(k) == IF ctx.fillRect[k].width < 0 THEN Right(k) ELSE Left(k)
Highest(k) == IF ctx.fillRect[k].width < 0 THEN Left(k) ELSE Right(k)

Inside(k) == 0 <= Lowest(k) /\ Highest(k) <= CanvasRight
Apart(k, l) == Highest(k) <= Lowest(l) \/ Highest(l) <= Lowest(k)

\* The population of the species before the k-th, times the canvas width.
CumulatedBefore(k) ==
  Total(SubSeq(args.specyPopArray, 1, k - 1)) * options.canvasWidth * Unit

\* The widths of the first k rectangles, each with one separator.
RECURSIVE WidthsWithSeparators(_)
WidthsWithSeparators(k) ==
  IF k = 0 THEN 0
  ELSE WidthsWithSeparators(k - 1) + ctx.fillRect[k].width + Separator

\* One rectangle per species, in species order from left to right.
OnePerSpeciesInOrder ==
  /\ Len(ctx.fillRect) = Len(args.specyPopArray)
  /\ Len(ret.array) = Len(args.specyPopArray)
  /\ \A k \in 1..(Len(ctx.fillRect) - 1) : Left(k) <= Left(k + 1)

-----------------------------------------------------------------------------
(* C8 *)

\* The statement as the specification words it: for a population array
\* summing to 1 the rectangles are one per species in species order, pairwise
\* non-overlapping, all inside [0, canvasWidth], their widths with one
\* separator each sum to canvasWidth, and the last one's right edge is at
\* canvasWidth.
C8_RectanglesPartitionTheCanvas ==
  (Partitioned /\ SumsToOne) =>
    /\ OnePerSpeciesInOrder
    /\ \A k \in 1..Len(ctx.fillRect) : Inside(k)
    /\ \A k, l \in 1..Len(ctx.fillRect) : k # l => Apart(k, l)
    /\ WidthsWithSeparators(Len(ctx.fillRect)) = CanvasRight
    /\ Right(Len(ctx.fillRect)) = CanvasRight

\* C8: for a population array summing to 1 the rectangles are one per
\* species in species order; every species, the first included, has its
\* rectangle start one separator right of the cumulated population before
\* it and end at the cumulated population with it, so that the widths with
\* one separator each sum to canvasWidth and the last right edge is at
\* canvasWidth; the rectangles of species at least as wide as the separator
\* (of non-negative width) are inside [0, canvasWidth] and pairwise
\* non-overlapping.
C8_RectanglesOfWideSpeciesPartitionTheCanvas ==
  (Partitioned /\ SumsToOne) =>
    /\ OnePerSpeciesInOrder
    /\ \A k \in 1..Len(ctx.fillRect) :
         /\ Left(k) = CumulatedBefore(k) + Separator
         /\ Right(k) = CumulatedBefore(k + 1)
         /\ ctx.fillRect[k].width >= 0 => Inside(k)
    /\ \A k, l \in 1..Len(ctx.fillRect) :
         (k # l /\ ctx.fillRect[k].width >= 0 /\ ctx.fillRect[l].width >= 0)
           => Apart(k, l)
    /\ WidthsWithSeparators(Len(ctx.fillRect)) = CanvasRight
    /\ Right(Len(ctx.fillRect)) = CanvasRight

\* A level summing to 1 in which a species narrower than the separator
\* follows an ordinary one: its rectangle has a negative width and starts
\* right of the canvas.
C8_Witness ==
  /\ Partitioned
  /\ SumsToOne
  /\ \E k \in 2..Len(ctx.fillRect) :
       /\ ctx.fillRect[k].width < 0
       /\ Left(k) > CanvasRight
       /\ ctx.fillRect[1].width > 0
       /\ args.specyPopArray[k] > 0

-----------------------------------------------------------------------------
(* C9 *)

\* C9: the first rectangle of a level starts at x = 0 with the width
\* population[0] * canvasWidth, no separator subtracted, and every later
\* rectangle is indented and narrowed by exactly one separator; the level of
\* the single population [1.0] yields one rectangle with left = 0 and
\* width = canvasWidth.
C9_FirstRectangleIsFlush ==
  (Partitioned /\ SumsToOne) =>
    /\ Left(1) = 0
    /\ ctx.fillRect[1].width = CumulatedBefore(2)
    /\ \A k \in 2..Len(ctx.fillRect) :
         /\ Left(k) = CumulatedBefore(k) + Separator
         /\ Right(k) = CumulatedBefore(k + 1)

-----------------------------------------------------------------------------
(* C11 *)

\* C11: when the colour list of a level (a population array summing to 1)
\* is empty, colour resolution does not fail: the level is drawn, one
\* rectangle and one label per species, every rectangle in the default fill
\* colour (black) and every label in the default text colour (white).
C11_EmptyColourListGivesTheDefaultPair ==
  (pc = "drawSpecyRectangles" /\ args.specyColors = <<>>
     /\ Total(args.specyPopArray) = Unit) =>
    /\ ret.kind = "return"
    /\ Len(ctx.fillRect) = Len(args.specyPopArray)
    /\ Len(ctx.fillText) = Len(args.specyPopArray)
    /\ \A k \in 1..Len(ctx.fillRect) : ctx.fillRect[k].fillStyle = "black"
    /\ \A k \in 1..Len(ctx.fillText) : ctx.fillText[k].fillStyle = "white"

-----------------------------------------------------------------------------
(* C12 *)

\* The labels option of the level of the k-th label drawn.
RectLabels(k) ==
  IF k <= Len(predatorsPop) THEN options.predatorsLabels
  ELSE IF k <= Len(predatorsPop) + Len(preysPop) THEN options.preysLabels
  ELSE options.otherPredatorsLabels

NoLevelHasLabels ==
  /\ options.predatorsLabels = Null
  /\ options.preysLabels = Null
  /\ options.otherPredatorsLabels = Null

\* The number a label of decimal digits writes.
DigitOf(character) == CHOOSE d \in 0..9 : Digits[d + 1] = character

RECURSIVE NumberOf(_)
NumberOf(label) ==
  IF Len(label) = 1 THEN DigitOf(label[1])
  ELSE NumberOf(SubSeq(label, 1, Len(label) - 1)) * 10
         + DigitOf(label[Len(label)])

TotalSpecies == Len(predatorsPop) + Len(preysPop) + Len(otherPredatorsPop)

\* C12: when no level supplies labels, the labels drawn are exactly the
\* numbers 1..T, T the number of species of all levels, in level order and
\* then species order, counting on from one level to the next, so that every
\* species has a number of its own; the label of species i of a level that
\* has labels is labels[i], and the numbers of the levels that have none
\* count the species of every level before them.
C12_LabelsNumberTheSpeciesAcrossLevels ==
  Drew =>
    /\ \A k \in 1..Len(ctx.fillText) :
         IF RectLabels(k) = Null
           THEN NumberOf(ctx.fillText[k].label) = k
           ELSE ctx.fillText[k].label = RectLabels(k)[1][RectIndex(k) + 1]
    /\ NoLevelHasLabels =>
         /\ Len(ctx.fillText) = TotalSpecies
         /\ \A k, l \in 1..Len(ctx.fillText) :
              k # l => ctx.fillText[k].label # ctx.fillText[l].label

\* A drawing of three levels without labels: the last species of the third
\* level carries the number of species of the network.
C12_Witness ==
  /\ DrewAll
  /\ NoLevelHasLabels
  /\ Len(predatorsPop) > 1
  /\ Len(preysPop) > 0
  /\ Len(otherPredatorsPop) > 0
  /\ Len(ctx.fillText) = TotalSpecies
  /\ NumberOf(ctx.fillText[TotalSpecies].label) = TotalSpecies

-----------------------------------------------------------------------------
(* C13 *)

\* A drawer as the constructor leaves it.
NewDrawer ==
  [predatorsPop |-> <<>>,
   preysPop |-> <<>>,
   otherPredatorsPop |-> <<>>,
   occupationPreysPerPredators |-> <<>>,
   occupationPreysPerOtherPredators |-> <<>>,
   predatorsTriangleOrigin |-> <<>>,
   otherPredatorsTriangleOrigin |-> <<>>,
   preysCoords |-> <<>>,
   options |-> DefaultOptions]

\* The geometry on a canvas: the rectangles and the triangles, without their
\* colours.
Geometry(canvas) ==
  [rectangles |-> [k \in 1..Len(canvas.fillRect) |->
                     <<canvas.fillRect[k].x, canvas.fillRect[k].y,
                       canvas.fillRect[k].width, canvas.fillRect[k].height>>],
   triangles |-> [k \in 1..Len(canvas.triangles) |->
                    <<canvas.triangles[k].vertexA, canvas.triangles[k].vertexB,
                      canvas.triangles[k].vertexC>>]]

\* C13: the rectangles and triangles a call of drawTrophicNetwork draws
\* depend on the call's arguments only: whatever calls were made on the
\* drawer before, with the same or with other options, they are those that
\* the same arguments give on a new drawer.
C13_GeometryDependsOnTheArgumentsOnly ==
  Drew =>
    Geometry(ctx) = Geometry(drawTrophicNetwork(NewDrawer, BlankCanvas, args).ctx)

-----------------------------------------------------------------------------
(* C14 *)

\* The arguments describe a right network of exactly two levels: no third
\* level, two populations summing to 1, and a predators' matrix of one row
\* per prey and one column per predator, every row summing to 1.
TwoLevelNetwork ==
  /\ args.otherPredatorsPop = <<>>
  /\ args.occupationPreysPerOtherPredators = <<>>
  /\ Total(args.predatorsPop) = Unit
  /\ Total(args.preysPop) = Unit
  /\ Len(args.occupationPreysPerPredators) = Len(args.preysPop)
  /\ \A i \in 1..Len(args.occupationPreysPerPredators) :
       /\ Len(args.occupationPreysPerPredators[i]) = Len(args.predatorsPop)
       /\ Total(args.occupationPreysPerPredators[i]) = Unit

\* C14: a right network of exactly two levels is supported: the validator
\* raises no exception and no alert and accepts it, and draw then draws one
\* rectangle per species of the two levels and the triangles of the
\* predators' matrix only.
C14_TwoLevelsAreSupported ==
  (pc = "drawTrophicNetwork" /\ TwoLevelNetwork) =>
    /\ ret = Return("undefined")
    /\ alerts = <<>>
    /\ trace = <<"validateMandatoryValues", "draw">>
    /\ Len(ctx.fillRect) = Len(args.predatorsPop) + Len(args.preysPop)
    /\ Len(ctx.triangles) = Cells(args.occupationPreysPerPredators)
    /\ \A t \in Range(ctx.triangles) : t.vertexA[2] = PreyEdgeY(FALSE)

====
